---- MODULE Spec2Model ----
(***************************************************************************)
(* doi-to-pmid (src/main.py): the DoiInfo record (sanitize, __init__,      *)
(* analyze, __str__) and main()'s two modes, as a state machine.           *)
(*                                                                         *)
(* Text is a sequence of string tokens.  Text the program takes apart      *)
(* (a DOI given to urlparse, a "pmcid" value given to split) is a sequence *)
(* of one-character tokens; a literal of the source that is only ever      *)
(* concatenated is one token.  Concatenation is \o, as in the source.      *)
(***************************************************************************)
EXTENDS Integers, Sequences, FiniteSets, Bags, TLC

VARIABLES
    args,        \* argparse's namespace: doi, dois, output, bibtex (line 96)
    fs,          \* the file system: path -> content
    pc,          \* main()'s position
    bibtex_db,   \* bibtex_db.entries (line 108), a sequence of field dicts
    i,           \* index of the loop at line 109 or 135
    info,        \* the live DoiInfo's instance dict (line 114 / 136)
    cls,         \* the DoiInfo class dict (lines 12-17)
    inflight,    \* number of HTTP requests issued and not yet answered
    response,    \* the last response received
    events,      \* what main() has done so far, in order: [ev, k, text]
    stdout,      \* the lines printed so far
    inputOpen,   \* the with-block of line 107 holds the input file open
    outputOpen,  \* the with-block of line 132 holds the output file open
    exitCode     \* the process's exit status once it has ended

vars == <<args, fs, pc, bibtex_db, i, info, cls, inflight, response,
          events, stdout, inputOpen, outputOpen, exitCode>>

\* ------------------------------------------------------------------ bounds
MaxLen == 4       \* longest raw DOI text drawn for the normalisation runs
MaxPmcLen == 3    \* longest "pmcid" value drawn for the resolver runs
MaxDois == 2      \* most DOI arguments on the command line
MaxEntries == 2   \* most entries in the bibliography file

\* ------------------------------------------------------------------- text
\* Python's None: a text no input drawn here equals.
None == <<"None">>

\* The characters raw DOI text is drawn from: a letter, a digit, and the
\* delimiters urlparse looks for.
Chars == {"h", "1", ":", "/", "?", "#", ";", "["}

\* str.isalpha() and str.lower() on ASCII text.
LowerCase ==
    <<"a", "b", "c", "d", "e", "f", "g", "h", "i", "j", "k", "l", "m", "n",
       "o", "p", "q", "r", "s", "t", "u", "v", "w", "x", "y", "z">>
UpperCase ==
    <<"A", "B", "C", "D", "E", "F", "G", "H", "I", "J", "K", "L", "M", "N",
       "O", "P", "Q", "R", "S", "T", "U", "V", "W", "X", "Y", "Z">>
Letters == {LowerCase[k] : k \in 1..Len(LowerCase)}
               \cup {UpperCase[k] : k \in 1..Len(UpperCase)}
lower(c) ==
    IF \E k \in 1..Len(UpperCase) : UpperCase[k] = c
    THEN LowerCase[CHOOSE k \in 1..Len(UpperCase) : UpperCase[k] = c]
    ELSE c
Digits == {"0", "1", "2", "3", "4", "5", "6", "7", "8", "9"}

TextsOver(alphabet, n) == UNION {[1..k -> alphabet] : k \in 0..n}

Take(s, n) == SubSeq(s, 1, n)
Drop(s, n) == SubSeq(s, n + 1, Len(s))

\* str.find(c, start) with 1-based positions: the first k >= from with
\* s[k] = c, and 0 when there is none.
Find(s, c, from) ==
    LET hits == {k \in from..Len(s) : s[k] = c}
    IN IF hits = {} THEN 0 ELSE CHOOSE k \in hits : \A m \in hits : k <= m

\* str.rfind(c): the last k with s[k] = c, and 0 when there is none.
RFind(s, c) ==
    LET hits == {k \in 1..Len(s) : s[k] = c}
    IN IF hits = {} THEN 0 ELSE CHOOSE k \in hits : \A m \in hits : k >= m

Contains(s, c) == \E k \in 1..Len(s) : s[k] = c

\* str.lstrip(c)
RECURSIVE LStrip(_, _)
LStrip(s, c) ==
    IF s # <<>> /\ Head(s) = c THEN LStrip(Tail(s), c) ELSE s

\* str.split(c)[-1]: what follows the last c, the whole text when there is none.
SplitLast(s, c) == Drop(s, RFind(s, c))

\* ------------------------------------------------ urllib.parse.urlparse
\* urlparse as CPython's urllib.parse computes it, for text without
\* whitespace or control characters (which urlsplit would first strip).
scheme_chars == Letters \cup Digits \cup {"+", "-", "."}

uses_params ==
    { <<>>,
      <<"f", "t", "p">>,
      <<"h", "d", "l">>,
      <<"p", "r", "o", "s", "p", "e", "r", "o">>,
      <<"h", "t", "t", "p">>,
      <<"i", "m", "a", "p">>,
      <<"h", "t", "t", "p", "s">>,
      <<"s", "h", "t", "t", "p">>,
      <<"r", "t", "s", "p">>,
      <<"r", "t", "s", "p", "s">>,
      <<"r", "t", "s", "p", "u">>,
      <<"s", "i", "p">>,
      <<"s", "i", "p", "s">>,
      <<"m", "m", "s">>,
      <<"s", "f", "t", "p">>,
      <<"t", "e", "l">> }

\* urlsplit, lines "i = url.find(':')" onward: the position of the colon
\* ending the scheme, 0 when the text has no scheme.
SchemeEnd(url) ==
    LET c == Find(url, ":", 1)
    IN IF c > 1 /\ url[1] \in Letters
          /\ \A k \in 1..(c - 1) : url[k] \in scheme_chars
       THEN c ELSE 0

\* "scheme, url = url[:i].lower(), url[i+1:]" when e is the scheme's colon
SplitSchemeAt(url, e) ==
    IF e > 0
    THEN <<[k \in 1..(e - 1) |-> lower(url[k])], Drop(url, e)>>
    ELSE << <<>>, url >>

FirstOf(positions, none) ==
    IF positions = {} THEN none
    ELSE CHOOSE k \in positions : \A m \in positions : k <= m

\* _splitnetloc(url, 2): <<netloc, rest>>
SplitNetlocAt(url, delim) == <<SubSeq(url, 3, delim - 1), Drop(url, delim - 1)>>
SplitNetloc(url) ==
    SplitNetlocAt(url,
        FirstOf({Find(url, d, 3) : d \in {"/", "?", "#"}} \ {0}, Len(url) + 1))

\* "if url[:2] == '//': netloc, url = _splitnetloc(url, 2)"
NetlocAndRest(url) ==
    IF Len(url) >= 2 /\ Take(url, 2) = <<"/", "/">>
    THEN SplitNetloc(url)
    ELSE << <<>>, url >>

\* url.split(c, 1)[0]
Before(url, c) == IF Contains(url, c) THEN Take(url, Find(url, c, 1) - 1) ELSE url

\* _splitparams(url)[0]
SplitParamsAt(url, semi) == IF semi = 0 THEN url ELSE Take(url, semi - 1)
SplitParams(url) ==
    SplitParamsAt(url, IF Contains(url, "/")
                       THEN Find(url, ";", RFind(url, "/"))
                       ELSE Find(url, ";", 1))

\* urlparse's own step: "if scheme in uses_params and ';' in url"
PathOf(scheme, url) ==
    IF scheme \in uses_params /\ Contains(url, ";") THEN SplitParams(url) ELSE url

\* "Invalid IPv6 URL": a bracket without its partner in the netloc.  (A
\* netloc with both brackets is validated as an IP literal; no text drawn
\* here has both.)
InvalidNetloc(netloc) ==
    \/ Contains(netloc, "[") /\ ~Contains(netloc, "]")
    \/ Contains(netloc, "]") /\ ~Contains(netloc, "[")

ParseResult(scheme, net) ==
    [raises |-> InvalidNetloc(net[1]),
     scheme |-> scheme,
     netloc |-> net[1],
     path |-> PathOf(scheme, Before(Before(net[2], "#"), "?"))]

ParseFromScheme(split) == ParseResult(split[1], NetlocAndRest(split[2]))

\* urlparse(url): [raises, scheme, netloc, path]
urlparse(url) == ParseFromScheme(SplitSchemeAt(url, SchemeEnd(url)))

\* "urlparse(doi) is not None" (line 24): urlparse returns a ParseResult or
\* raises; it never returns None.
ParseResultIsNone(parsed) == FALSE

\* A plausible slip: the path is returned with its leading slashes.
sanitize_keeps_slash(doi) ==
    IF ~ParseResultIsNone(urlparse(doi)) THEN urlparse(doi).path ELSE doi

\* DoiInfo.sanitize (for a doi on which urlparse does not raise)
sanitize(doi) ==
    IF ~ParseResultIsNone(urlparse(doi))
    THEN LStrip(urlparse(doi).path, "/")
    ELSE doi

\* urlparse raises ValueError, and so do sanitize and DoiInfo(doi).
sanitize_raises(doi) == urlparse(doi).raises

\* --------------------------------------------------------- class DoiInfo
\* The class dict (lines 12-17); "doi: str" (line 11) is an annotation only.
DoiInfoClass ==
    [pmid |-> None,
     pmcid |-> None,
     doi_link |-> <<"http://dx.doi.org/">>,
     pm_link |-> <<"http://www.ncbi.nlm.nih.gov/pubmed/">>,
     pmc_link |-> <<"http://www.ncbi.nlm.nih.gov/pmc/articles/">>]

\* An object is its instance dict and its class's dict.  Attribute lookup
\* reads the instance dict first, then the class dict.
getattr(o, a) == IF a \in DOMAIN o.inst THEN o.inst[a] ELSE o.cls[a]

\* A plausible slip: the assignment lands in the class dict, as it would
\* for a class-level container mutated in place.
setattr_on_class(o, a, v) == [inst |-> o.inst, cls |-> (a :> v) @@ o.cls]

\* "self.a = v" and "self.a += v" store into the instance dict.
setattr(o, a, v) == [inst |-> (a :> v) @@ o.inst, cls |-> o.cls]

\* self.a += f"{self.b}"
append_attr(o, a, b) == setattr(o, a, getattr(o, a) \o getattr(o, b))

\* DoiInfo.__init__ on a fresh instance of the class whose dict is c.
DoiInfo_init(c, doi) ==
    append_attr(setattr([inst |-> <<>>, cls |-> c], "doi", sanitize(doi)),
                "doi_link", "doi")

has_pmid(o) == getattr(o, "pmid") # None
has_pmcid(o) == getattr(o, "pmcid") # None

\* A plausible slip: the whole "pmcid" value is kept.
pmcid_whole(value) == value

\* data["pmcid"].split("/")[-1] (line 57)
pmcid_of(value) == SplitLast(value, "/")

\* lines 51-53
take_pmid(o, data) ==
    IF "pmid" \in DOMAIN data
    THEN append_attr(setattr(o, "pmid", data["pmid"]), "pm_link", "pmid")
    ELSE o

\* lines 56-58
take_pmcid(o, data) ==
    IF "pmcid" \in DOMAIN data
    THEN append_attr(setattr(o, "pmcid", pmcid_of(data["pmcid"])),
                     "pmc_link", "pmcid")
    ELSE o

\* lines 54-55 and 59-60: the line printed when the key is missing
not_found(data, key, message, doi) ==
    IF key \in DOMAIN data THEN <<>> ELSE <<message \o doi>>

Analyzed(o, out, raises) == [o |-> o, out |-> out, raises |-> raises]

\* lines 50-60, on the first result
analyze_first(o, data, doi) ==
    Analyzed(take_pmcid(take_pmid(o, data), data),
             not_found(data, "pmid", <<"PMID not found for ">>, doi)
                 \o not_found(data, "pmcid", <<"PMCID not found for ">>, doi),
             FALSE)

\* A plausible slip: no guard on the status or on an empty result list
\* (raise_for_status(), then result[0]), so a missed lookup raises.
analyze_unguarded(o, r) ==
    IF r.status = 200 /\ r.json /\ Len(r.result) > 0
    THEN analyze_first(o, r.result[1], getattr(o, "doi"))
    ELSE Analyzed(o, <<>>, TRUE)

\* DoiInfo.analyze from line 48 on, given the response r of the GET:
\* [o: the object afterwards, out: the lines printed, raises: an exception
\* leaves analyze].  response.json() raises on a body that is not JSON.
analyze(o, r) ==
    IF r.status = 200
    THEN IF ~r.json
         THEN Analyzed(o, <<>>, TRUE)
         ELSE IF Len(r.result) > 0
              THEN analyze_first(o, r.result[1], getattr(o, "doi"))
              ELSE Analyzed(o, << <<"Error: Wrong DOI - ">> \o getattr(o, "doi") >>,
                            FALSE)
    ELSE Analyzed(o, << <<"Error: DOI not found - ">> \o getattr(o, "doi") >>, FALSE)

\* One bracketed segment of the annotation: [<label>:\href{<link>}{<id>}]
Segment(open, link, id) == open \o link \o <<"}{">> \o id \o <<"}]">>

PubMedOpen == <<"[PubMed:\\href{">>
PubMedCentralOpen == <<"[PubMed Central:\\href{">>
DoiOpen == <<"[doi:\\href{">>

\* A plausible slip: the PubMed Central segment is labelled with the PMID.
DoiInfo_str_pmid_label(o) ==
    (IF has_pmid(o)
     THEN Segment(PubMedOpen, getattr(o, "pm_link"), getattr(o, "pmid"))
     ELSE <<>>)
    \o (IF has_pmcid(o)
        THEN Segment(PubMedCentralOpen, getattr(o, "pmc_link"), getattr(o, "pmid"))
        ELSE <<>>)
    \o Segment(DoiOpen, getattr(o, "doi_link"), getattr(o, "doi"))

\* DoiInfo.__str__
DoiInfo_str(o) ==
    (IF has_pmid(o)
     THEN Segment(PubMedOpen, getattr(o, "pm_link"), getattr(o, "pmid"))
     ELSE <<>>)
    \o (IF has_pmcid(o)
        THEN Segment(PubMedCentralOpen, getattr(o, "pmc_link"), getattr(o, "pmcid"))
        ELSE <<>>)
    \o Segment(DoiOpen, getattr(o, "doi_link"), getattr(o, "doi"))

\* ------------------------------------------------------------------ main
Truthy(v) == v # None /\ v # <<>>

InBib == <<"in.bib">>
OutBib == <<"out.bib">>
DefaultOut == <<"modified.bib">>
Paths == {InBib, OutBib, DefaultOut}

\* lines 98-100
out_filename == IF Truthy(args.output) THEN args.output ELSE DefaultOut

\* File contents.  A dumped file holds the entries of the database; their
\* order on disk is the writer's (order_entries_by) and is kept as a bag.
Absent == [kind |-> "absent", doc |-> <<>>, dumped |-> EmptyBag]
OldFile == [kind |-> "old", doc |-> <<>>, dumped |-> EmptyBag]
Truncated == [kind |-> "empty", doc |-> <<>>, dumped |-> EmptyBag]
BibFile(entries) == [kind |-> "bib", doc |-> entries, dumped |-> EmptyBag]

RECURSIVE BagOfSeq(_)
BagOfSeq(q) ==
    IF q = <<>> THEN EmptyBag ELSE SetToBag({Head(q)}) (+) BagOfSeq(Tail(q))

\* bibtexparser.dump(bibtex_db, out_file, writer)
Dumped(entries) == [kind |-> "dump", doc |-> <<>>, dumped |-> BagOfSeq(entries)]

Event(ev, k, text) == [ev |-> ev, k |-> k, text |-> text]

NoResponse == [status |-> 0, json |-> FALSE, result |-> <<>>]

UsageMessage == <<"--doi or --bibtex much be provided">>

\* A plausible slip: DOI arguments are looked up without the --doi flag.
doi_mode_any_dois == Len(args.dois) > 0

\* line 134
doi_mode == args.doi /\ Len(args.dois) > 0

\* The loop at line 109 or 135 has an item left, and it is to be looked up.
HasItem ==
    IF pc = "bib_loop" THEN i <= Len(bibtex_db)
    ELSE pc = "doi_loop" /\ i <= Len(args.dois)

ItemHasDoi ==
    IF pc = "bib_loop" THEN "doi" \in DOMAIN bibtex_db[i] ELSE TRUE

ItemDoi == IF pc = "bib_loop" THEN bibtex_db[i]["doi"] ELSE args.dois[i]

\* A plausible slip: the note is replaced, not appended to.
note_overwrite(entry, text) == ("note" :> text) @@ entry

\* lines 116-119
note_merge(entry, text) ==
    IF "note" \in DOMAIN entry
    THEN [entry EXCEPT !["note"] = @ \o text]
    ELSE ("note" :> text) @@ entry

\* A plausible slip: the loop looks the same item up again.
same_item(k) == k

\* the for loops of lines 109 and 135 move to the next item
next_item(k) == k + 1

\* A plausible slip: the output is written inside the with-block of line
\* 107, while the input file is still open.
input_still_open == TRUE

\* the with-block of line 107 ends before line 121: the input is closed
input_after_with == FALSE

\* An unhandled exception ends the process; a with-block it leaves closes
\* its file.
Raise ==
    /\ pc' = "aborted"
    /\ exitCode' = 1
    /\ inputOpen' = FALSE
    /\ inflight' = 0

\* lines 101-108: open the input and load it
OpenBibtex ==
    /\ pc = "main"
    /\ Truthy(args.bibtex)
    /\ IF fs[args.bibtex].kind = "bib"
       THEN /\ inputOpen' = TRUE
            /\ bibtex_db' = fs[args.bibtex].doc
            /\ i' = 1
            /\ pc' = "bib_loop"
            /\ events' = Append(events, Event("open_input", 0, args.bibtex))
            /\ UNCHANGED <<exitCode, inflight>>
       ELSE /\ Raise
            /\ UNCHANGED <<bibtex_db, i, events>>
    /\ UNCHANGED <<args, fs, info, cls, response, stdout, outputOpen>>

\* line 111 is false: the entry has no "doi"
BibSkip ==
    /\ pc = "bib_loop"
    /\ HasItem
    /\ ~ItemHasDoi
    /\ i' = next_item(i)
    /\ UNCHANGED <<args, fs, pc, bibtex_db, info, cls, inflight, response,
                   events, stdout, inputOpen, outputOpen, exitCode>>

\* The live object (info and its class) becomes o.
Becomes(o) ==
    /\ info' = o.inst
    /\ cls' = o.cls

Self == [inst |-> info, cls |-> cls]

\* line 114 / 136: info = DoiInfo(doi)
Construct ==
    /\ HasItem
    /\ ItemHasDoi
    /\ IF sanitize_raises(ItemDoi)
       THEN /\ Raise
            /\ UNCHANGED <<info, cls>>
       ELSE /\ Becomes(DoiInfo_init(cls, ItemDoi))
            /\ pc' = "analyze"
            /\ UNCHANGED <<exitCode, inputOpen, inflight>>
    /\ UNCHANGED <<args, fs, bibtex_db, i, response, events, stdout, outputOpen>>

\* lines 43-45: analyze() issues the GET and blocks
Request ==
    /\ pc = "analyze"
    /\ inflight' = inflight + 1
    /\ events' = Append(events,
                        Event("request", i, getattr(Self, "doi")))
    /\ pc' = "waiting"
    /\ UNCHANGED <<args, fs, bibtex_db, i, info, cls, response, stdout,
                   inputOpen, outputOpen, exitCode>>

\* requests.get raises (no connection, DNS failure, ...)
RequestFails ==
    /\ pc = "waiting"
    /\ Raise
    /\ UNCHANGED <<args, fs, bibtex_db, i, info, cls, response, events, stdout,
                   outputOpen>>

\* lines 48-64: the response r arrives and analyze() handles it, with
\* outcome a
Handle(r, a) ==
    /\ pc = "waiting"
    /\ response' = r
    /\ events' = Append(events, Event("response", i, <<>>))
    /\ IF a.raises
       THEN /\ Raise
            /\ UNCHANGED <<info, cls, stdout>>
       ELSE /\ Becomes(a.o)
            /\ stdout' = stdout \o a.out
            /\ inflight' = inflight - 1
            /\ pc' = "render"
            /\ UNCHANGED <<exitCode, inputOpen>>
    /\ UNCHANGED <<args, fs, bibtex_db, i, outputOpen>>

Respond(r) == Handle(r, analyze(Self, r))

\* the annotation text goes into entry i's note
Merge(text) ==
    /\ bibtex_db' = [bibtex_db EXCEPT ![i] = note_merge(@, text)]
    /\ events' = Append(events, Event("merge", i, text))

\* the annotation text is printed
Emit(text) ==
    /\ stdout' = Append(stdout, text)
    /\ events' = Append(events, Event("print", i, text))

\* lines 116-119: the annotation goes into the entry's note
MergeNote ==
    /\ pc = "render"
    /\ Truthy(args.bibtex)
    /\ Merge(DoiInfo_str(Self))
    /\ i' = next_item(i)
    /\ pc' = "bib_loop"
    /\ UNCHANGED <<args, fs, info, cls, inflight, response, stdout, inputOpen,
                   outputOpen, exitCode>>

\* the loop of line 109 is exhausted and the with-block of line 107 ends
CloseInput ==
    /\ pc = "bib_loop"
    /\ ~HasItem
    /\ inputOpen' = input_after_with
    /\ events' = Append(events, Event("close_input", 0, args.bibtex))
    /\ pc' = "write"
    /\ UNCHANGED <<args, fs, bibtex_db, i, info, cls, inflight, response, stdout,
                   outputOpen, exitCode>>

\* line 132: open(out_filename, "w") creates or truncates the file
OpenOutput ==
    /\ pc = "write"
    /\ fs' = [fs EXCEPT ![out_filename] = Truncated]
    /\ outputOpen' = TRUE
    /\ events' = Append(events, Event("open_output", 0, out_filename))
    /\ pc' = "dump"
    /\ UNCHANGED <<args, bibtex_db, i, info, cls, inflight, response, stdout,
                   inputOpen, exitCode>>

\* line 133 and the end of main(): the database is dumped, the file closed
Dump ==
    /\ pc = "dump"
    /\ fs' = [fs EXCEPT ![out_filename] = Dumped(bibtex_db)]
    /\ outputOpen' = FALSE
    /\ events' = Append(events, Event("dump", 0, out_filename))
    /\ pc' = "done"
    /\ exitCode' = 0
    /\ UNCHANGED <<args, bibtex_db, i, info, cls, inflight, response, stdout,
                   inputOpen>>

\* line 134 holds: DOI-list mode
StartDoi ==
    /\ pc = "main"
    /\ ~Truthy(args.bibtex)
    /\ doi_mode
    /\ i' = 1
    /\ pc' = "doi_loop"
    /\ UNCHANGED <<args, fs, bibtex_db, info, cls, inflight, response, events,
                   stdout, inputOpen, outputOpen, exitCode>>

\* line 138: print(info)
PrintInfo ==
    /\ pc = "render"
    /\ ~Truthy(args.bibtex)
    /\ Emit(DoiInfo_str(Self))
    /\ i' = next_item(i)
    /\ pc' = "doi_loop"
    /\ UNCHANGED <<args, fs, bibtex_db, info, cls, inflight, response,
                   inputOpen, outputOpen, exitCode>>

\* the loop of line 135 is exhausted: main() returns
DoiDone ==
    /\ pc = "doi_loop"
    /\ ~HasItem
    /\ pc' = "done"
    /\ exitCode' = 0
    /\ UNCHANGED <<args, fs, bibtex_db, i, info, cls, inflight, response, events,
                   stdout, inputOpen, outputOpen>>

\* lines 139-141
UsageError ==
    /\ pc = "main"
    /\ ~Truthy(args.bibtex)
    /\ ~doi_mode
    /\ stdout' = Append(stdout, UsageMessage)
    /\ pc' = "done"
    /\ exitCode' = 1
    /\ UNCHANGED <<args, fs, bibtex_db, i, info, cls, inflight, response, events,
                   inputOpen, outputOpen>>

\* ---------------------------------------------------------------- inputs
Resolver ==
    <<"h", "t", "t", "p", "s", ":", "/", "/", "d", "o", "i", ".", "o", "r", "g", "/">>
DoiBare == <<"1", "0", ".", "1", "/", "x">>
DoiOther == <<"1", "0", ".", "2", "/", "y">>

\* DOIs as a user gives them: bare, or as a resolver URL.
DoiSamples == {DoiBare, Resolver \o DoiOther}

\* Raw DOI text for the normalisation runs: every text over Chars up to
\* MaxLen, bare and behind the resolver prefix.
RawDois ==
    TextsOver(Chars, MaxLen) \cup {Resolver \o d : d \in TextsOver(Chars, MaxLen)}

EntryBase ==
    [ID |-> <<"key">>, ENTRYTYPE |-> <<"article">>, author |-> <<"A. Author">>]
OldNote == <<"See also. ">>

\* The "doi" field of the bibliography's entries, here as a resolver URL.
BibDois == {Resolver \o DoiOther}

EntrySamples ==
    {EntryBase, ("note" :> OldNote) @@ EntryBase}
    \cup {("doi" :> d) @@ EntryBase : d \in BibDois}
    \cup {("doi" :> d) @@ ("note" :> OldNote) @@ EntryBase : d \in BibDois}

Documents == TextsOver(EntrySamples, MaxEntries)

\* The result dicts of the lookup API: "pmid" and "pmcid" are optional
\* strings (spec section 6).
ResultDicts(pmids, pmcids) ==
    {<<>>}
    \cup {("pmid" :> a) : a \in pmids}
    \cup {("pmcid" :> b) : b \in pmcids}
    \cup {("pmid" :> a) @@ ("pmcid" :> b) : a \in pmids, b \in pmcids}

SomePmid == <<"3", "3">>
OtherResult == ("pmid" :> <<"9">>) @@ ("pmcid" :> <<"Q">>)
PmcValues == TextsOver({"P", "/"}, MaxPmcLen)

NotFound == [status |-> 404, json |-> FALSE, result |-> <<>>]
NotJson == [status |-> 200, json |-> FALSE, result |-> <<>>]
Found(result) == [status |-> 200, json |-> TRUE, result |-> result]

WideResponses ==
    {NotFound, NotJson, Found(<<>>)}
    \cup {Found(<<d>>) : d \in ResultDicts({SomePmid}, PmcValues)}
    \cup {Found(<<d, OtherResult>>) : d \in ResultDicts({SomePmid}, PmcValues)}

NarrowResponses ==
    {NotFound, NotJson, Found(<<>>)}
    \cup {Found(<<d>>) : d \in ResultDicts({SomePmid}, {<<"x", "/", "P", "1">>})}

\* The files before the run: the input, when there is one, holds a
\* document; out.bib does not exist yet; modified.bib is left from before.
FilesWith(input) == (InBib :> input) @@ (OutBib :> Absent) @@ (DefaultOut :> OldFile)

InitialFiles(docs) == {FilesWith(f) : f \in {Absent} \cup {BibFile(d) : d \in docs}}

\* ------------------------------------------------------- specifications
InitWith(argsets, files) ==
    /\ args \in argsets
    /\ fs \in files
    /\ pc = "main"
    /\ bibtex_db = <<>>
    /\ i = 0
    /\ info = <<>>
    /\ cls = DoiInfoClass
    /\ inflight = 0
    /\ response = NoResponse
    /\ events = <<>>
    /\ stdout = <<>>
    /\ inputOpen = FALSE
    /\ outputOpen = FALSE
    /\ exitCode = -1

\* Command lines without a usable --bibtex.
CliArgs ==
    [doi : BOOLEAN,
     dois : TextsOver(DoiSamples, MaxDois),
     output : {None, OutBib},
     bibtex : {None, <<>>}]

\* Command lines with --bibtex in.bib, with and without --doi DOI.
BibArgs ==
    [doi : {FALSE}, dois : {<<>>}, output : {None, OutBib, InBib}, bibtex : {InBib}]
    \cup [doi : {TRUE}, dois : {<<DoiBare>>}, output : {None, OutBib, InBib},
          bibtex : {InBib}]

\* The whole program, both modes.
Init ==
    \/ InitWith(CliArgs, {FilesWith(Absent)})
    \/ InitWith(BibArgs, InitialFiles(Documents))

Next ==
    \/ OpenBibtex
    \/ BibSkip
    \/ Construct
    \/ Request
    \/ RequestFails
    \/ \E r \in NarrowResponses : Respond(r)
    \/ MergeNote
    \/ CloseInput
    \/ OpenOutput
    \/ Dump
    \/ StartDoi
    \/ PrintInfo
    \/ DoiDone
    \/ UsageError

Spec == Init /\ [][Next]_vars

\* One DOI resolved in DOI-list mode, over every response shape.
InitResolver ==
    InitWith([doi : {TRUE},
              dois : {<<d>> : d \in DoiSamples},
              output : {None},
              bibtex : {None}],
             {FilesWith(Absent)})

NextResolver ==
    \/ StartDoi
    \/ Construct
    \/ Request
    \/ RequestFails
    \/ \E r \in WideResponses : Respond(r)
    \/ PrintInfo
    \/ DoiDone

SpecResolver == InitResolver /\ [][NextResolver]_vars

\* DoiInfo(doi) on every raw DOI text.
InitSanitize ==
    InitWith([doi : {TRUE},
              dois : {<<d>> : d \in RawDois},
              output : {None},
              bibtex : {None}],
             {FilesWith(Absent)})

NextSanitize ==
    \/ StartDoi
    \/ Construct

SpecSanitize == InitSanitize /\ [][NextSanitize]_vars

\* ---------------------------------------------------------------- claims
LastIs(ev) == events # <<>> /\ events[Len(events)].ev = ev
HasEvent(ev) == \E k \in 1..Len(events) : events[k].ev = ev
PrintedText == events[Len(events)].text
Responded == pc \in {"render", "doi_loop", "done"} /\ HasEvent("response")

\* The first result of a successful lookup carries the key.
FirstHas(r, key) ==
    r.status = 200 /\ r.json /\ Len(r.result) > 0 /\ key \in DOMAIN r.result[1]

\* [<label>:\href{<base><id>}{<id>}], as the specification words it.
ExpectedSegment(open, base, id) == <<open, base>> \o id \o <<"}{">> \o id \o <<"}]">>
PartIf(present, text) == IF present THEN text ELSE <<>>

IsOpening(t) == t \in {"[PubMed:\\href{", "[PubMed Central:\\href{", "[doi:\\href{"}
IsClosing(t) == t = "}]"

Infix(part, whole) ==
    \E a \in 1..(Len(whole) - Len(part) + 1) : SubSeq(whole, a, a + Len(part) - 1) = part
Suffix(part, whole) ==
    Len(part) <= Len(whole)
    /\ SubSeq(whole, Len(whole) - Len(part) + 1, Len(whole)) = part

\* The raw DOI of item k of the running loop.
RawOf(k) == IF Truthy(args.bibtex) THEN bibtex_db[k]["doi"] ELSE args.dois[k]

\* C1: the printed annotation is the PubMed segment iff the record has a
\* PMID, then the PubMed Central segment iff it has a PMCID (link and label
\* both the PMCID), then the DOI segment; when the first result has both
\* "pmid" and "pmcid" it has exactly three segments, in that order.
C1_AnnotationSegments ==
    LastIs("print") =>
        /\ PrintedText =
              PartIf(has_pmid(Self),
                     ExpectedSegment("[PubMed:\\href{",
                                     "http://www.ncbi.nlm.nih.gov/pubmed/",
                                     getattr(Self, "pmid")))
              \o PartIf(has_pmcid(Self),
                        ExpectedSegment("[PubMed Central:\\href{",
                                        "http://www.ncbi.nlm.nih.gov/pmc/articles/",
                                        getattr(Self, "pmcid")))
              \o ExpectedSegment("[doi:\\href{", "http://dx.doi.org/",
                                 getattr(Self, "doi"))
        /\ (FirstHas(response, "pmid") /\ FirstHas(response, "pmcid") =>
               /\ has_pmid(Self)
               /\ has_pmcid(Self)
               /\ getattr(Self, "pmid") = response.result[1]["pmid"]
               /\ SelectSeq(PrintedText, IsOpening)
                      = <<"[PubMed:\\href{", "[PubMed Central:\\href{", "[doi:\\href{">>
               /\ Len(SelectSeq(PrintedText, IsClosing)) = 3)

C1_Witness ==
    /\ LastIs("print")
    /\ FirstHas(response, "pmid")
    /\ FirstHas(response, "pmcid")
    /\ response.result[1]["pmcid"] = <<"P", "/", "P">>
    /\ args.dois[1] = Resolver \o DoiOther

\* C2: a lookup answered with a non-200 status, or with 200 and an empty
\* result list, leaves analyze() normally, prints a warning naming the DOI,
\* leaves PMID and PMCID absent, and the annotation is the DOI segment alone.
C2_MissedLookupDegrades ==
    (HasEvent("response")
     /\ (response.status # 200 \/ (response.json /\ Len(response.result) = 0))) =>
        /\ pc \in {"render", "doi_loop", "done"}
        /\ exitCode # 1
        /\ ~has_pmid(Self)
        /\ ~has_pmcid(Self)
        /\ stdout # <<>>
        /\ stdout[1] = <<IF response.status # 200
                         THEN "Error: DOI not found - "
                         ELSE "Error: Wrong DOI - ">> \o getattr(Self, "doi")
        /\ (LastIs("print") =>
               /\ PrintedText = ExpectedSegment("[doi:\\href{", "http://dx.doi.org/",
                                                getattr(Self, "doi"))
               /\ stdout = <<stdout[1], PrintedText>>)

C2_Witness ==
    /\ LastIs("print")
    /\ pc = "done"
    /\ response = Found(<<>>)
    /\ args.dois[1] = Resolver \o DoiOther

\* C8: the PMCID kept on the record, and rendered in the PubMed Central
\* segment, is the final path segment of the "pmcid" value received.
IsFinalSegment(seg, value) ==
    /\ ~Contains(seg, "/")
    /\ \E k \in 0..Len(value) : Drop(value, k) = seg /\ (k = 0 \/ value[k] = "/")

C8_PmcidFinalSegment ==
    (Responded /\ FirstHas(response, "pmcid")) =>
        /\ has_pmcid(Self)
        /\ IsFinalSegment(getattr(Self, "pmcid"), response.result[1]["pmcid"])
        /\ (LastIs("print") =>
               Infix(ExpectedSegment("[PubMed Central:\\href{",
                                     "http://www.ncbi.nlm.nih.gov/pmc/articles/",
                                     getattr(Self, "pmcid")),
                     PrintedText))

C8_Witness ==
    /\ LastIs("print")
    /\ FirstHas(response, "pmcid")
    /\ response.result[1]["pmcid"] = <<"/", "/", "P">>
    /\ getattr(Self, "pmcid") = <<"P">>

\* C3 as claimed: the DOI is the stripped path when the input parses as a
\* URL with a non-empty path, and the input unchanged otherwise.
ClaimedDoi(x) ==
    IF ~urlparse(x).raises /\ urlparse(x).path # <<>>
    THEN LStrip(urlparse(x).path, "/")
    ELSE x

C3_NormalizationAsClaimed ==
    pc \in {"analyze", "aborted"} =>
        /\ pc = "analyze"
        /\ getattr(Self, "doi") = ClaimedDoi(args.dois[1])

\* C4 as claimed: normalising a normalised DOI changes nothing, on every
\* input.
C4_IdempotentOnEveryInput ==
    pc = "analyze" => sanitize(getattr(Self, "doi")) = getattr(Self, "doi")

\* A DOI that begins with a digit and has none of "?", "#", ";".
BareDoi(d) ==
    /\ d # <<>>
    /\ d[1] \in Digits
    /\ ~Contains(d, "?")
    /\ ~Contains(d, "#")
    /\ ~Contains(d, ";")

IsResolverUrl(x) == Len(x) > Len(Resolver) /\ Take(x, Len(Resolver)) = Resolver
BareOf(x) == IF IsResolverUrl(x) THEN Drop(x, Len(Resolver)) ELSE x

\* C4 as amended: a DOI d that begins with a digit and has none of "?",
\* "#", ";" is normalised to d itself, given bare or as the resolver URL
\* "https://doi.org/" + d, and normalising the result again changes nothing.
C4_IdempotentOnBareDois ==
    (pc \in {"analyze", "aborted"} /\ BareDoi(BareOf(args.dois[1]))) =>
        /\ pc = "analyze"
        /\ getattr(Self, "doi") = BareOf(args.dois[1])
        /\ sanitize(getattr(Self, "doi")) = getattr(Self, "doi")

C4_Witness ==
    /\ pc = "analyze"
    /\ args.dois[1] = Resolver \o <<"1", "/", "h", ":">>
    /\ getattr(Self, "doi") = <<"1", "/", "h", ":">>

\* The document as it was read (the input file is not yet overwritten).
OrigDoc == fs[InBib].doc

MergeTexts(k) ==
    {events[j].text : j \in {m \in 1..Len(events) :
                                events[m].ev = "merge" /\ events[m].k = k}}

\* An annotation for doi ends with doi's own DOI segment.
IsAnnotationFor(text, doi) ==
    Suffix(ExpectedSegment("[doi:\\href{", "http://dx.doi.org/", doi), text)

OldNoteOf(entry) == IF "note" \in DOMAIN entry THEN entry["note"] ELSE <<>>

EntryRewritten(old, new, texts) ==
    IF "doi" \in DOMAIN old
    THEN /\ DOMAIN new = DOMAIN old \cup {"note"}
         /\ \A f \in DOMAIN old \ {"note"} : new[f] = old[f]
         /\ Cardinality(texts) = 1
         /\ \A t \in texts : /\ new["note"] = OldNoteOf(old) \o t
                             /\ IsAnnotationFor(t, sanitize(old["doi"]))
    ELSE new = old

\* C5: after the rewrite loop an entry with a "doi" has note = its previous
\* note followed by the annotation (the annotation alone when it had none)
\* and every other field as before; an entry without "doi" is unchanged.
C5_NotesRewritten ==
    pc = "write" =>
        /\ Len(bibtex_db) = Len(OrigDoc)
        /\ \A k \in 1..Len(OrigDoc) :
               EntryRewritten(OrigDoc[k], bibtex_db[k], MergeTexts(k))

C5_Witness ==
    /\ pc = "write"
    /\ Len(bibtex_db) = 2
    /\ "doi" \in DOMAIN OrigDoc[1]
    /\ "note" \in DOMAIN OrigDoc[1]
    /\ "doi" \notin DOMAIN OrigDoc[2]
    /\ "note" \notin DOMAIN OrigDoc[2]

\* C6: with neither --doi nor --bibtex, or with --doi and no DOI (and no
\* --bibtex), the program prints the usage error and exits non-zero, having
\* issued no lookup and touched no file.
C6_UsageError ==
    (pc # "main" /\ ~Truthy(args.bibtex) /\ ~(args.doi /\ Len(args.dois) > 0)) =>
        /\ pc = "done"
        /\ exitCode = 1
        /\ stdout = <<UsageMessage>>
        /\ events = <<>>
        /\ inflight = 0
        /\ DOMAIN info = {}
        /\ fs = FilesWith(Absent)

C6_Witness ==
    /\ pc = "done"
    /\ exitCode = 1
    /\ ~args.doi
    /\ Len(args.dois) = 2
    /\ args.bibtex = None

\* C7: lookups are sequential, one per DOI, in order: the events of the run
\* are request, response, print (or merge) for the first item to look up,
\* then for the second, ...; each request carries that item's normalised
\* DOI; at most one request is in flight; a run that ends normally has
\* looked every item up exactly once.
Indices(n) == [k \in 1..n |-> k]
IsDoiEntry(k) == "doi" \in DOMAIN bibtex_db[k]
ItemsToLookUp ==
    IF Truthy(args.bibtex)
    THEN SelectSeq(Indices(Len(bibtex_db)), IsDoiEntry)
    ELSE Indices(Len(args.dois))
IsLookupEvent(e) == e.ev \in {"request", "response", "print", "merge"}
Lookups == SelectSeq(events, IsLookupEvent)
LookupSteps ==
    <<"request", "response", IF Truthy(args.bibtex) THEN "merge" ELSE "print">>

LookupInOrder(e, j) ==
    /\ ((j - 1) \div 3) + 1 <= Len(ItemsToLookUp)
    /\ e.k = ItemsToLookUp[((j - 1) \div 3) + 1]
    /\ e.ev = LookupSteps[((j - 1) % 3) + 1]
    /\ (e.ev = "request" => e.text = sanitize(RawOf(e.k)))

C7_OneLookupPerDoiInOrder ==
    /\ inflight \in {0, 1}
    /\ (inflight = 1 <=> pc = "waiting")
    /\ \A j \in 1..Len(Lookups) : LookupInOrder(Lookups[j], j)
    /\ (pc = "done" /\ exitCode = 0 => Len(Lookups) = 3 * Len(ItemsToLookUp))

C7_Witness ==
    /\ pc = "done"
    /\ exitCode = 0
    /\ Len(args.dois) = 2
    /\ Len(Lookups) = 6
    /\ Lookups[3].ev = "print"
    /\ Lookups[4].ev = "request"
    /\ Lookups[4].text # Lookups[1].text

\* C9: no state is shared across lookups: the class dict never changes, a
\* fresh record holds its own DOI and DOI link and nothing else, and what a
\* record holds after its lookup is its own response's identifiers and the
\* links made of them.
C9_NoSharedState ==
    /\ cls = DoiInfoClass
    /\ (DOMAIN info # {} =>
           /\ info["doi_link"] = <<"http://dx.doi.org/">> \o info["doi"]
           /\ (pc \in {"analyze", "waiting"} =>
                  /\ DOMAIN info = {"doi", "doi_link"}
                  /\ info["doi"] = sanitize(RawOf(i)))
           /\ ("pmid" \in DOMAIN info <=> "pm_link" \in DOMAIN info)
           /\ ("pmcid" \in DOMAIN info <=> "pmc_link" \in DOMAIN info)
           /\ ("pmid" \in DOMAIN info =>
                  info["pm_link"]
                      = <<"http://www.ncbi.nlm.nih.gov/pubmed/">> \o info["pmid"])
           /\ ("pmcid" \in DOMAIN info =>
                  info["pmc_link"]
                      = <<"http://www.ncbi.nlm.nih.gov/pmc/articles/">> \o info["pmcid"])
           /\ (pc = "render" =>
                  /\ ("pmid" \in DOMAIN info <=> FirstHas(response, "pmid"))
                  /\ ("pmcid" \in DOMAIN info <=> FirstHas(response, "pmcid"))
                  /\ ("pmid" \in DOMAIN info =>
                         info["pmid"] = response.result[1]["pmid"])))

C9_Witness ==
    /\ pc = "render"
    /\ "pmid" \notin DOMAIN info
    /\ "pmcid" \notin DOMAIN info
    /\ \E k \in 1..Len(events) :
           /\ events[k].ev \in {"print", "merge"}
           /\ Contains(events[k].text, "[PubMed:\\href{")
           /\ Contains(events[k].text, "[PubMed Central:\\href{")

\* C10: in bibliography mode the output file is opened only once the input
\* is closed and every entry with a "doi" has been looked up and merged; a
\* step changes no file but the output path, and only then; a run that
\* aborts before has created, truncated and modified nothing.
AllLookedUp ==
    /\ i > Len(bibtex_db)
    /\ Len(SelectSeq(events, IsLookupEvent)) = 3 * Len(ItemsToLookUp)

C10_OutputAfterLookups ==
    [][/\ (outputOpen' =>
              ~inputOpen' /\ inflight' = 0 /\ AllLookedUp' /\ HasEvent("close_input")')
       /\ (fs' # fs =>
              /\ ~inputOpen
              /\ inflight = 0
              /\ AllLookedUp
              /\ HasEvent("close_input")
              /\ \A p \in Paths \ {out_filename} : fs'[p] = fs[p])
       /\ (pc' = "aborted" => fs' = fs /\ ~outputOpen' /\ ~HasEvent("open_output")')
      ]_vars

C10_Witness ==
    /\ pc = "aborted"
    /\ HasEvent("merge")
    /\ LastIs("response")
    /\ args.output = OutBib
    /\ fs[OutBib] = Absent
====
